---- MODULE Spec2Model ----
(***************************************************************************)
(* A model of the task orchestration core of AutoDev:                      *)
(*   src/src/agents/coordinator.py  (Task, EventBus, Coordinator).         *)
(*                                                                         *)
(* The Coordinator's coroutines are modelled at the granularity of their   *)
(* await points: every `await` of execute_task and run_workflow is a place *)
(* where the asyncio event loop may run another coroutine, so each action  *)
(* below is the code between two consecutive awaits.                       *)
(***************************************************************************)
EXTENDS Integers, Sequences, FiniteSets, TLC

\* Bound of the model: the number of create_task calls explored.
MaxTasks == 3

\* Bound of the model: the length of a subscriber list.
MaxSubs == 2

\* Bound of the model: the number of publish calls on the queue-based bus.
MaxEvents == 2

\* Bound of the model: the number of stages of a workflow definition.
MaxStages == 2

\* Bound of the model: the number of create_workflow calls.
MaxCreates == 2

\* Python's None.
NONE == "<None>"

\* TaskState (coordinator.py:12-16), by the enum's values.
PENDING == "pending"
RUNNING == "running"
COMPLETED == "completed"
FAILED == "failed"
TaskState == {PENDING, RUNNING, COMPLETED, FAILED}

\* The event types Coordinator.execute_task publishes.
TASK_STARTED == "task_started"
TASK_COMPLETED == "task_completed"
TASK_FAILED == "task_failed"

\* Task ids of the model: the values str(uuid.uuid4())[:8] can take. When
\* the prefix is one that no stored task has, which one it is makes no
\* difference to the Coordinator: the n-th task then gets id n.
IdSpace == 1..MaxTasks

\* A string that is the id of no task (a caller may pass any string in deps).
UnknownId == MaxTasks + 1

\* The run_workflow coroutines that may exist on one Coordinator.
LoopIds == {"L1", "L2"}

VARIABLES
    tasks,    \* Coordinator.tasks: the dict in insertion order, a sequence of Task records
    agents,   \* Coordinator.agents: name -> NONE (not registered) | "exec" | "noexec"
    loops,    \* the run_workflow coroutines: [pc, batch, ret]
    co,       \* the execute_task coroutines created by gather: co[l][id] is a position
    events,   \* events[id]: the event types published about task id, in publish order
    batchOf,  \* batchOf[id]: the number of the gather that dispatched task id (0: none)
    env,      \* the inputs the environment draws from (fixed by Init)
    cbus,     \* Coordinator.event_bus: [subscribers, pub, seen]
    qbus,     \* the queue-based EventBus of orchestration/event_bus.py
    wf        \* WorkflowEngine with its StateManager and its event bus

vars == <<tasks, agents, loops, co, events, batchOf, env, cbus, qbus, wf>>

\* the variables of the Coordinator's task side
coordVars == <<tasks, agents, loops, co, events, batchOf, env>>

-----------------------------------------------------------------------------
(* Helpers over the task dict *)

Ids(ts) == {ts[i].id : i \in DOMAIN ts}

\* self.tasks[task_id] for an id that is a key
TaskOf(ts, id) == ts[CHOOSE i \in DOMAIN ts : ts[i].id = id]

\* str(uuid.uuid4())[:8] when it is a prefix that no stored task has
NewTaskId(ts) == Len(ts) + 1

\* self.tasks[task_id] = task: a new key goes last, an existing key keeps its
\* place and gets the new value
Store(ts, task) ==
    IF task.id \in Ids(ts)
    THEN [i \in DOMAIN ts |-> IF ts[i].id = task.id THEN task ELSE ts[i]]
    ELSE Append(ts, task)

\* Task(...) as create_task builds it: the dataclass defaults for the rest
NewTask(id, priority, agent, deps) ==
    [id |-> id, assigned_agent |-> agent, priority |-> priority,
     state |-> PENDING, dependencies |-> deps, result |-> NONE, error |-> NONE]

\* an assignment to fields of the Task object with this id
SetTask(ts, id, st, res, err) ==
    [i \in DOMAIN ts |->
        IF ts[i].id = id
        THEN [ts[i] EXCEPT !.state = st, !.result = res, !.error = err]
        ELSE ts[i]]

-----------------------------------------------------------------------------
(* Coordinator.get_ready_tasks *)

\* mutant: ties are reversed (a sort that is not stable under reverse=True)
RECURSIVE InsertByPriority_Unstable(_, _)
InsertByPriority_Unstable(t, s) ==
    IF s = <<>> THEN <<t>>
    ELSE IF Head(s).priority > t.priority
         THEN <<Head(s)>> \o InsertByPriority_Unstable(t, Tail(s))
         ELSE <<t>> \o s

\* sorted(..., key=priority, reverse=True): Python's sort is stable and stays
\* stable under reverse=True; an insertion sort in which a task goes after
\* every task of greater or equal priority.
RECURSIVE InsertByPriority(_, _)
InsertByPriority(t, s) ==
    IF s = <<>> THEN <<t>>
    ELSE IF Head(s).priority >= t.priority
         THEN <<Head(s)>> \o InsertByPriority(t, Tail(s))
         ELSE <<t>> \o s

RECURSIVE SortedByPriorityDesc(_)
SortedByPriorityDesc(s) ==
    IF s = <<>> THEN <<>>
    ELSE InsertByPriority(s[Len(s)], SortedByPriorityDesc(SubSeq(s, 1, Len(s) - 1)))

\* mutant: a Failed task counts as done
CompletedIds_Finished(ts) ==
    {ts[i].id : i \in {j \in DOMAIN ts : ts[j].state \in {COMPLETED, FAILED}}}

CompletedIds(ts) == {ts[i].id : i \in {j \in DOMAIN ts : ts[j].state = COMPLETED}}

\* mutant: `any` for `all`
IsReady_Any(ts, t) ==
    /\ t.state = PENDING
    /\ t.dependencies = {} \/ \E d \in t.dependencies : d \in CompletedIds(ts)

\* mutant: the dependencies are not looked at
IsReady_NoDepCheck(ts, t) == t.state = PENDING

\* mutant: only tasks without dependencies are ever ready
IsReady_NoDeps(ts, t) == t.state = PENDING /\ t.dependencies = {}

\* mutant: a Failed task is picked up again
IsReady_Retry(ts, t) ==
    /\ t.state \in {PENDING, FAILED}
    /\ \A d \in t.dependencies : d \in CompletedIds(ts)

IsReady(ts, t) ==
    /\ t.state = PENDING
    /\ \A d \in t.dependencies : d \in CompletedIds(ts)

get_ready_tasks(ts) ==
    SortedByPriorityDesc(SelectSeq(ts, LAMBDA t : IsReady(ts, t)))

-----------------------------------------------------------------------------
(* Coordinator.get_status *)

\* mutant: states[s] = 1 instead of states.get(s, 0) + 1
get_status_Flag(ts) ==
    LET present == {ts[i].state : i \in DOMAIN ts} IN
    [total_tasks |-> Len(ts),
     state_breakdown |-> [s \in present |-> 1]]

get_status(ts) ==
    LET present == {ts[i].state : i \in DOMAIN ts} IN
    [total_tasks |-> Len(ts),
     state_breakdown |->
        [s \in present |-> Cardinality({i \in DOMAIN ts : ts[i].state = s})]]

-----------------------------------------------------------------------------
(* EventBus.publish of the Coordinator's bus, as the record of the call *)

publish(ev, event_type, id) == [ev EXCEPT ![id] = Append(@, event_type)]

-----------------------------------------------------------------------------
(* Coordinator.execute_task: its pieces *)

\* mutant: `if agent:` without the hasattr test
HasCapability_NoHasattr(ag, name) == ag[name] # NONE

\* `agent and hasattr(agent, 'execute')`
HasCapability(ag, name) == ag[name] = "exec"

\* ValueError(f"Agent '{task.assigned_agent}' not found")
AgentNotFound(name) == [cls |-> "ValueError", msg |-> "Agent '" \o name \o "' not found"]

\* mutant: `except ValueError`
ExceptException_ValueError(exc) == exc.cls = "ValueError"

\* `except Exception`: every exception class of the model derives from Exception
ExceptException(exc) == exc.cls \in {"ValueError", "AgentError"}

\* mutant: the while looks at Running tasks only
AnyActive_RunningOnly(ts) == \E i \in DOMAIN ts : ts[i].state = RUNNING

\* the any(...) of run_workflow's while condition
AnyActive(ts) == \E i \in DOMAIN ts : ts[i].state \in {PENDING, RUNNING}

\* mutant: the await returns with the first child that returns
GatherOver_First(c, batch) == \E i \in DOMAIN batch : c[batch[i]] \in {"raised", "done"}

\* asyncio.gather(*coros) is over: a child raised (gather without
\* return_exceptions hands the first exception to its awaiter) or all returned
GatherOver(c, batch) ==
    \/ \E i \in DOMAIN batch : c[batch[i]] = "raised"
    \/ \A i \in DOMAIN batch : c[batch[i]] = "done"

GatherRaised(c, batch) == \E i \in DOMAIN batch : c[batch[i]] = "raised"

-----------------------------------------------------------------------------
(* The Coordinator's EventBus with its subscribers (coordinator.py:33-52) *)

CoordEventTypes == {TASK_STARTED, TASK_COMPLETED, TASK_FAILED}

\* the handlers that callers subscribe: a plain function and a coroutine
\* function whose body awaits
CoordHandlers == {"on_sync", "on_coro"}

\* asyncio.iscoroutinefunction(handler)
IsCoroutineFunction(h) == h = "on_coro"

Last(seq) == seq[Len(seq)]

\* EventBus.__init__, and no publish under way
InitCoordBus ==
    [subscribers |-> [t \in CoordEventTypes |-> <<>>],
     pub |-> [l \in LoopIds |-> [id \in IdSpace |-> [idx |-> 0, type |-> NONE, len |-> 0]]],
     seen |-> <<>>,
     calls |-> <<>>]

\* a plain function whose body raises
Raises(h) == h = "on_raise"

\* mutant: no try/except around the handler, the for loop ends at the raise
RECURSIVE InvokedFrom_Unguarded(_, _)
InvokedFrom_Unguarded(list, k) ==
    IF k > Len(list) THEN <<>>
    ELSE IF IsCoroutineFunction(list[k]) \/ Raises(list[k]) THEN <<list[k]>>
         ELSE <<list[k]>> \o InvokedFrom_Unguarded(list, k + 1)

\* the for loop of publish from position k of the list, up to the first await
\* that suspends: the handlers invoked, the last one the awaited coroutine.
\* A handler that raises is invoked like one that returns: the except of the
\* loop body logs and the loop goes on.
RECURSIVE InvokedFrom(_, _)
InvokedFrom(list, k) ==
    IF k > Len(list) THEN <<>>
    ELSE IF IsCoroutineFunction(list[k]) THEN <<list[k]>>
         ELSE <<list[k]>> \o InvokedFrom(list, k + 1)

\* publish(event_type, {task_id: id}) run from position k by the coroutine
\* (l, id): seen records the invocations, pub the handler awaited (0: publish
\* has returned) and the length n that the list had when publish was called.
\* An exception of a handler is caught and logged.
Deliver(cb, l, id, type, k, n) ==
    LET inv == InvokedFrom(cb.subscribers[type], k)
        stop == IF inv # <<>> /\ IsCoroutineFunction(Last(inv))
                THEN k + Len(inv) - 1 ELSE 0
    IN [cb EXCEPT !.seen = @ \o [i \in 1..Len(inv) |-> <<inv[i], type, id>>],
                  !.pub[l][id] = IF stop = 0 THEN [idx |-> 0, type |-> NONE, len |-> 0]
                                 ELSE [idx |-> stop, type |-> type, len |-> n]]

-----------------------------------------------------------------------------
(* The queue-based EventBus (orchestration/event_bus.py) *)

\* event types that callers of the bus publish (workflow.py)
BusTypes == {"workflow_started", "workflow_completed"}

\* the callbacks: a plain function and a coroutine function
BusHandlers == {"log_sync", "notify_coro"}

\* asyncio.iscoroutinefunction(callback)
IsCoroutineCallback(h) == h = "notify_coro"

NoEvent == [n |-> 0, type |-> NONE, gone |-> {}]
NoEmit == [ev |-> NoEvent, list |-> <<>>, coros |-> <<>>, started |-> FALSE, live |-> {}]

(* EventBus.__init__: no subscribers, an empty queue; process_events is not
   running yet. The fields that are not the program's:
     published  the number of publish calls so far (events are numbered)
     log        the callbacks' starts, <<callback, event number>>, in order
     owed       the <<callback, event number>> with the callback subscribed
                to the event's type when the event was published
     unsubd     unsubd[t]: the callbacks whose last call for type t was an
                unsubscribe
   and the field gone of an event: the callbacks of unsubd at its publish
   that have not subscribed to its type since. *)
InitQueueBus ==
    [subscribers |-> [t \in BusTypes |-> <<>>],
     queue |-> <<>>,
     proc |-> "off",
     cur |-> NoEmit,
     published |-> 0,
     log |-> <<>>,
     owed |-> {},
     unsubd |-> [t \in BusTypes |-> {}]]

Range(seq) == {seq[i] : i \in DOMAIN seq}

\* [c for c in self.subscribers[event_type] if c != callback]
Without_Kept(list, callback) == list

Without(list, callback) == SelectSeq(list, LAMBDA c : c # callback)

\* the for loop of emit over list; raiseAt is the position of the synchronous
\* callback that raises (0: none does). The synchronous callbacks that ran:
SyncRun(list, raiseAt) ==
    LET upto == IF raiseAt = 0 THEN Len(list) ELSE raiseAt
    IN SelectSeq(SubSeq(list, 1, upto), LAMBDA c : ~IsCoroutineCallback(c))

\* tasks: the coroutines the loop collected for gather, in list order
Collected(list) == SelectSeq(list, IsCoroutineCallback)

\* the positions at which a synchronous callback can raise
RaiseChoices(list) == {0} \cup {i \in DOMAIN list : ~IsCoroutineCallback(list[i])}

-----------------------------------------------------------------------------
(* WorkflowEngine (orchestration/workflow.py) and StateManager
   (orchestration/state_manager.py). The engine's event_bus is an object with
   publish(event_type, data), as coordinator.EventBus has it: publish logs a
   handler's exception and does not raise, and it can suspend in a coroutine
   handler. *)

WfIds == {"w1", "w2"}

\* the execute_workflow calls that can be in progress together
CallIds == {"X1", "X2"}

W_CREATED == "created"
W_RUNNING == "running"
W_COMPLETED == "completed"
W_FAILED == "failed"

\* a stage of a definition: a dict with a name, a dict without one, or a
\* value that is no dict (stage.get raises AttributeError)
StageKinds == {"named", "unnamed", "notdict"}

\* the definitions: the 'stages' lists of up to MaxStages stages
Definitions == UNION {[1..n -> StageKinds] : n \in 0..MaxStages}

\* stage.get('name', f'Stage_{stage_idx}')
StageName(stage, stage_idx) ==
    IF stage = "named" THEN "build" ELSE <<"Stage_", stage_idx>>

\* str(e) of the AttributeError that stage.get raises on a value without get
StageError == "'str' object has no attribute 'get'"

\* the dict that create_workflow builds
NewWorkflow(workflow_id, definition) ==
    [id |-> workflow_id, definition |-> definition, status |-> W_CREATED,
     current_stage |-> 0, error |-> NONE]

NoCall == [pc |-> "idle", id |-> NONE, ref |-> 0, idx |-> 0]

(* WorkflowEngine.__init__ and StateManager.__init__:
     heap        the workflow dicts made so far (a dict is an object: the
                 engine, a call's local variable and local_state can hold
                 the same one)
     workflows   self.workflows: the dict of an id (0: no such key)
     local       StateManager.local_state['workflow:' + id] (0: no such key)
     redis       what the redis client holds for 'workflow:' + id
     call        the execute_workflow coroutines
   and for the properties:
     events      the publish calls on the engine's bus, in order
     saves       the save_workflow calls, in order
     reply       the last query (get_workflow, get_workflow_status,
                 get_task_status) and the value it returned *)
\* Python's None where a record can be
Absent == [absent |-> TRUE]

NoReply == [op |-> NONE, id |-> NONE, task |-> 0, how |-> NONE, value |-> Absent]

InitEngine ==
    [heap |-> <<>>,
     workflows |-> [w \in WfIds |-> 0],
     local |-> [w \in WfIds |-> 0],
     redis |-> [w \in WfIds |-> Absent],
     call |-> [c \in CallIds |-> NoCall],
     events |-> <<>>,
     saves |-> <<>>,
     reply |-> NoReply]

\* json.dumps(workflow_data): the record's content at the time of the call
Snapshot(workflow) ==
    [status |-> workflow.status, current_stage |-> workflow.current_stage,
     error |-> workflow.error]

save_workflow_Fatal(w, heap, workflow_id, ref, outcome, by) ==
    [w EXCEPT !.local[workflow_id] = IF outcome = "stored" THEN ref ELSE @,
              !.redis[workflow_id] = IF outcome = "stored" THEN Snapshot(heap[ref]) ELSE @,
              !.saves = Append(@, [id |-> workflow_id, ref |-> ref, by |-> by,
                                   status |-> heap[ref].status,
                                   current_stage |-> heap[ref].current_stage])]

\* StateManager.save_workflow(workflow_id, the dict ref of heap): local_state
\* takes the dict itself; outcome is what self.redis does: "none" (no redis
\* client), "stored", "refused" (set returns False) or "raised" (caught and
\* logged). No await of it suspends.
save_workflow(w, heap, workflow_id, ref, outcome, by) ==
    [w EXCEPT !.local[workflow_id] = ref,
              !.redis[workflow_id] = IF outcome = "stored" THEN Snapshot(heap[ref]) ELSE @,
              !.saves = Append(@, [id |-> workflow_id, ref |-> ref, by |-> by,
                                   status |-> heap[ref].status,
                                   current_stage |-> heap[ref].current_stage])]

\* self.local_state.get('workflow:' + workflow_id), as the record's content
LocalRecord(w, workflow_id) ==
    IF w.local[workflow_id] = 0 THEN Absent
    ELSE Snapshot(w.heap[w.local[workflow_id]])

\* StateManager.get_workflow(workflow_id); how is what self.redis does:
\* "none" (no redis client), "hit" (get returns the stored string), "absent"
\* (get returns None: no such key, or a RedisClient that is not connected)
\* or "raised". Only "none" and "raised" reach the last line.
GetWorkflow(w, workflow_id, how) ==
    CASE how = "hit" -> w.redis[workflow_id]
      [] how = "absent" -> Absent
      [] OTHER -> LocalRecord(w, workflow_id)

\* Coordinator.get_task_status(task_id)
TaskStatus_Index(ts, task_id) ==
    IF task_id \in Ids(ts)
    THEN LET t == TaskOf(ts, task_id)
         IN [id |-> t.id, state |-> t.state, result |-> t.result, error |-> t.error]
    ELSE [raised |-> "KeyError"]

TaskStatus(ts, task_id) ==
    IF task_id \in Ids(ts)
    THEN LET t == TaskOf(ts, task_id)
         IN [id |-> t.id, state |-> t.state, result |-> t.result, error |-> t.error]
    ELSE Absent

\* WorkflowEngine.get_workflow_status(workflow_id): self.workflows.get(..)
WorkflowStatus(w, workflow_id) ==
    IF w.workflows[workflow_id] = 0 THEN Absent
    ELSE Snapshot(w.heap[w.workflows[workflow_id]])

\* event_bus.publish(event_type, {'workflow_id': .., ..}); by is the call
\* that publishes
wf_publish(w, event_type, workflow_id, detail, by) ==
    [w EXCEPT !.events = Append(@, <<event_type, workflow_id, detail, by>>)]

\* for idx, stage in enumerate(stages): the stage of a pass
StageAt_Reversed(stages, idx) == stages[Len(stages) - idx]

StageAt(stages, idx) == stages[idx + 1]

-----------------------------------------------------------------------------
(* Initial states *)

InitCoordinator ==
    /\ tasks = <<>>
    /\ agents = [n \in {"backend", "legacy"} |-> NONE]
    /\ loops = [l \in LoopIds |-> [pc |-> "idle", batch |-> <<>>, ret |-> NONE]]
    /\ co = [l \in LoopIds |-> [id \in IdSpace |-> "none"]]
    /\ events = [id \in IdSpace |-> <<>>]
    /\ batchOf = [id \in IdSpace |-> 0]
    /\ cbus = InitCoordBus
    /\ qbus = InitQueueBus
    /\ wf = InitEngine

\* One scheduler loop per Coordinator. The agent side in
\* full: a registered agent, an unregistered one, an object without execute;
\* the default priority; dependencies on tasks that exist.
Init ==
    /\ InitCoordinator
    /\ env = [priorities |-> {2},
              agentNames |-> {"backend", "legacy"},
              registrable |-> {"backend"},
              kinds |-> {"exec", "noexec"},
              unknownDeps |-> FALSE,
              results |-> {"payload"},
              excs |-> {[cls |-> "AgentError", msg |-> "boom"]},
              loops |-> {"L1"},
              maxTasks |-> MaxTasks]

\* what BackendAgent.execute returns when its body raised: the except
\* returns {'error': str(e), 'status': 'failed'} instead of raising
ErrorPayload == "{'error': 'boom', 'status': 'failed'}"

\* The agent also fails the way the bundled agents do: execute returns the
\* error payload.
InitPayload ==
    /\ InitCoordinator
    /\ env = [priorities |-> {2},
              agentNames |-> {"backend", "legacy"},
              registrable |-> {"backend"},
              kinds |-> {"exec", "noexec"},
              unknownDeps |-> FALSE,
              results |-> {"payload", ErrorPayload},
              excs |-> {[cls |-> "AgentError", msg |-> "boom"]},
              loops |-> {"L1"},
              maxTasks |-> MaxTasks - 1]

-----------------------------------------------------------------------------
(* Actions *)

\* Coordinator.register_agent(name, agent)
register_agent(name, kind) ==
    /\ agents[name] # kind
    /\ agents' = [agents EXCEPT ![name] = kind]
    /\ UNCHANGED <<tasks, loops, co, events, batchOf, env>>

\* Coordinator.create_task(title, description, agent, priority, deps), with
\* the uuid4 prefix drawn as task_id
create_task(task_id, agent, priority, deps) ==
    /\ Len(tasks) < env.maxTasks
    /\ tasks' = Store(tasks, NewTask(task_id, priority, agent, deps))
    /\ UNCHANGED <<agents, loops, co, events, batchOf, env>>

\* a call of Coordinator.run_workflow(): up to the first evaluation of the while
StartWorkflow(l) ==
    /\ l \in env.loops
    /\ loops[l].pc \in {"idle", "returned"}
    /\ loops' = [loops EXCEPT ![l] = [pc |-> "check", batch |-> <<>>, ret |-> NONE]]
    /\ UNCHANGED <<tasks, agents, co, events, batchOf, env>>

\* one evaluation of the while condition and the code up to the next await:
\* return get_status(), or await sleep, or create the batch and await gather
LoopPass(l) ==
    /\ loops[l].pc = "check"
    /\ IF ~AnyActive(tasks)
       THEN /\ loops' = [loops EXCEPT ![l].pc = "returned", ![l].ret = get_status(tasks)]
            /\ UNCHANGED <<co, batchOf>>
       ELSE LET ready == get_ready_tasks(tasks)
                batch == [i \in DOMAIN ready |-> ready[i].id]
                last == CHOOSE n \in 0..(2 * MaxTasks) :
                            /\ \A id \in IdSpace : batchOf[id] <= n
                            /\ \E id \in IdSpace : batchOf[id] = n
            IN IF ready = <<>>
               THEN /\ loops' = [loops EXCEPT ![l].pc = "sleep"]
                    /\ UNCHANGED <<co, batchOf>>
               ELSE /\ loops' = [loops EXCEPT ![l].pc = "gather", ![l].batch = batch]
                    /\ co' = [co EXCEPT ![l] =
                                [id \in IdSpace |->
                                    IF \E i \in DOMAIN batch : batch[i] = id
                                    THEN "new" ELSE @[id]]]
                    /\ batchOf' = [id \in IdSpace |->
                                    IF \E i \in DOMAIN batch : batch[i] = id
                                    THEN last + 1 ELSE batchOf[id]]
    /\ UNCHANGED <<tasks, agents, events, env>>

\* asyncio.sleep(0.1) is over
LoopWake(l) ==
    /\ loops[l].pc = "sleep"
    /\ loops' = [loops EXCEPT ![l].pc = "check"]
    /\ UNCHANGED <<tasks, agents, co, events, batchOf, env>>

\* mutant: the task is set Running and task_started is not published
ExecStart_NoPublish(l, id) ==
    /\ co[l][id] = "new"
    /\ tasks' = SetTask(tasks, id, RUNNING, TaskOf(tasks, id).result, TaskOf(tasks, id).error)
    /\ co' = [co EXCEPT ![l][id] = "started"]
    /\ UNCHANGED <<agents, loops, events, batchOf, env>>

\* execute_task, lines 89-90: state = RUNNING and the call of publish
ExecStart(l, id) ==
    /\ co[l][id] = "new"
    /\ tasks' = SetTask(tasks, id, RUNNING, TaskOf(tasks, id).result, TaskOf(tasks, id).error)
    /\ events' = publish(events, TASK_STARTED, id)
    /\ co' = [co EXCEPT ![l][id] = "started"]
    /\ UNCHANGED <<agents, loops, batchOf, env>>

\* the except clause of execute_task, lines 102-106, for an exception raised
\* in the try block
HandleException(l, id, exc) ==
    IF ExceptException(exc)
    THEN /\ tasks' = SetTask(tasks, id, FAILED, TaskOf(tasks, id).result, exc.msg)
         /\ events' = publish(events, TASK_FAILED, id)
         /\ co' = [co EXCEPT ![l][id] = "pub_failed"]
    ELSE /\ co' = [co EXCEPT ![l][id] = "raised"]
         /\ UNCHANGED <<tasks, events>>

\* mutant: the agent calls of a batch one after the other
ExecInvoke_Serialized(l, id) ==
    /\ co[l][id] = "started"
    /\ \A other \in IdSpace : co[l][other] # "agent"
    /\ IF HasCapability(agents, TaskOf(tasks, id).assigned_agent)
       THEN /\ co' = [co EXCEPT ![l][id] = "agent"]
            /\ UNCHANGED <<tasks, events>>
       ELSE HandleException(l, id, AgentNotFound(TaskOf(tasks, id).assigned_agent))
    /\ UNCHANGED <<agents, loops, batchOf, env>>

\* execute_task, lines 92-95 (and 101): publish('task_started') has returned;
\* look the agent up and call it, or raise ValueError
ExecInvoke(l, id) ==
    /\ co[l][id] = "started"
    /\ IF HasCapability(agents, TaskOf(tasks, id).assigned_agent)
       THEN /\ co' = [co EXCEPT ![l][id] = "agent"]
            /\ UNCHANGED <<tasks, events>>
       ELSE HandleException(l, id, AgentNotFound(TaskOf(tasks, id).assigned_agent))
    /\ UNCHANGED <<agents, loops, batchOf, env>>

\* execute_task, lines 96-99: agent.execute returned `result`
AgentReturn(l, id, result) ==
    /\ co[l][id] = "agent"
    /\ tasks' = SetTask(tasks, id, COMPLETED, result, TaskOf(tasks, id).error)
    /\ events' = publish(events, TASK_COMPLETED, id)
    /\ co' = [co EXCEPT ![l][id] = "pub_completed"]
    /\ UNCHANGED <<agents, loops, batchOf, env>>

\* agent.execute raised `exc`
AgentRaise(l, id, exc) ==
    /\ co[l][id] = "agent"
    /\ HandleException(l, id, exc)
    /\ UNCHANGED <<agents, loops, batchOf, env>>

\* the last publish of execute_task has returned: the coroutine returns
ExecFinish(l, id) ==
    /\ co[l][id] \in {"pub_completed", "pub_failed"}
    /\ co' = [co EXCEPT ![l][id] = "done"]
    /\ UNCHANGED <<tasks, agents, loops, events, batchOf, env>>

\* run_workflow, line 120: the await of gather is over
GatherDone(l) ==
    /\ loops[l].pc = "gather"
    /\ GatherOver(co[l], loops[l].batch)
    /\ IF GatherRaised(co[l], loops[l].batch)
       THEN /\ loops' = [loops EXCEPT ![l].pc = "crashed"]
            /\ UNCHANGED co
       ELSE /\ loops' = [loops EXCEPT ![l].pc = "check", ![l].batch = <<>>]
            /\ co' = [co EXCEPT ![l] = [id \in IdSpace |-> IF @[id] = "done" THEN "none" ELSE @[id]]]
    /\ UNCHANGED <<tasks, agents, events, batchOf, env>>

DepChoices ==
    SUBSET (Ids(tasks) \cup (IF env.unknownDeps THEN {UnknownId} ELSE {}))

\* a step that is none of an event bus: no handler is subscribed, so that a
\* publish invokes nothing
Quiet == UNCHANGED <<cbus, qbus, wf>>

\* The Coordinator with uuid4 prefixes that never repeat and without
\* subscribers.
Next ==
    \/ \E n \in env.registrable, k \in env.kinds : register_agent(n, k) /\ Quiet
    \/ \E a \in env.agentNames, p \in env.priorities, d \in DepChoices :
          create_task(NewTaskId(tasks), a, p, d) /\ Quiet
    \/ \E l \in LoopIds : StartWorkflow(l) /\ Quiet
    \/ \E l \in LoopIds : LoopPass(l) /\ Quiet
    \/ \E l \in LoopIds : LoopWake(l) /\ Quiet
    \/ \E l \in LoopIds, id \in IdSpace : ExecStart(l, id) /\ Quiet
    \/ \E l \in LoopIds, id \in IdSpace : ExecInvoke(l, id) /\ Quiet
    \/ \E l \in LoopIds, id \in IdSpace, r \in env.results : AgentReturn(l, id, r) /\ Quiet
    \/ \E l \in LoopIds, id \in IdSpace, e \in env.excs : AgentRaise(l, id, e) /\ Quiet
    \/ \E l \in LoopIds, id \in IdSpace : ExecFinish(l, id) /\ Quiet
    \/ \E l \in LoopIds : GatherDone(l) /\ Quiet

Spec == Init /\ [][Next]_vars

SpecPayload == InitPayload /\ [][Next]_vars

\* The event loop runs every coroutine that can run: the steps of run_workflow
\* and of execute_task are weakly fair. An agent call that has started ends,
\* by returning or by raising. Calls from outside (register_agent,
\* create_task, run_workflow) need not happen.
Fairness ==
    /\ \A l \in LoopIds :
          /\ WF_vars(LoopPass(l) /\ Quiet)
          /\ WF_vars(LoopWake(l) /\ Quiet)
          /\ WF_vars(GatherDone(l) /\ Quiet)
    /\ \A l \in LoopIds, id \in IdSpace :
          /\ WF_vars(ExecStart(l, id) /\ Quiet)
          /\ WF_vars(ExecInvoke(l, id) /\ Quiet)
          /\ WF_vars(ExecFinish(l, id) /\ Quiet)
          /\ WF_vars(/\ \/ \E r \in env.results : AgentReturn(l, id, r)
                        \/ \E e \in env.excs : AgentRaise(l, id, e)
                     /\ Quiet)

FairSpec == Spec /\ Fairness

\* The dependency and priority side in full: three priorities, dependency
\* lists that may name no task; one agent name, registered or not.
InitDeps ==
    /\ InitCoordinator
    /\ env = [priorities |-> {1, 3, 5},
              agentNames |-> {"backend"},
              registrable |-> {"backend"},
              kinds |-> {"exec"},
              unknownDeps |-> TRUE,
              results |-> {"payload"},
              excs |-> {[cls |-> "AgentError", msg |-> "boom"]},
              loops |-> {"L1"},
              maxTasks |-> MaxTasks]

SpecDeps == InitDeps /\ [][Next]_vars

\* The task registry alone, with task_id drawn from all the prefixes: the code
\* does not look whether the prefix is already a key.
NextRegistry ==
    \/ \E n \in env.registrable, k \in env.kinds : register_agent(n, k) /\ Quiet
    \/ \E id \in IdSpace, a \in env.agentNames, p \in env.priorities, d \in DepChoices :
          create_task(id, a, p, d) /\ Quiet

SpecIds == InitDeps /\ [][NextRegistry]_vars

\* EventBus.subscribe(event_type, handler) of the Coordinator's bus
coord_subscribe(event_type, handler) ==
    /\ Len(cbus.subscribers[event_type]) < MaxSubs
    /\ cbus' = [cbus EXCEPT !.subscribers[event_type] = Append(@, handler)]
    /\ UNCHANGED <<coordVars, qbus, wf>>

\* a step of execute_task with subscribers: the coroutine is not inside an
\* awaited handler, and a publish call the step makes runs its for loop up
\* to the first coroutine handler
WithSubscribers(l, id) ==
    /\ cbus.pub[l][id].idx = 0
    /\ cbus' = IF events'[id] # events[id]
               THEN [Deliver(cbus, l, id, Last(events'[id]), 1,
                             Len(cbus.subscribers[Last(events'[id])]))
                       EXCEPT !.calls = Append(@, <<Last(events'[id]), id>>)]
               ELSE cbus
    /\ UNCHANGED <<qbus, wf>>

\* the coroutine handler that publish awaits returns or raises: publish goes
\* on with the next handler of the list as it is now
HandlerDone(l, id) ==
    /\ cbus.pub[l][id].idx > 0
    /\ cbus' = Deliver(cbus, l, id, cbus.pub[l][id].type, cbus.pub[l][id].idx + 1,
                       cbus.pub[l][id].len)
    /\ UNCHANGED <<coordVars, qbus, wf>>

\* The Coordinator with subscribers on its event bus.
NextObs ==
    \/ \E n \in env.registrable, k \in env.kinds : register_agent(n, k) /\ Quiet
    \/ \E a \in env.agentNames, p \in env.priorities, d \in DepChoices :
          create_task(NewTaskId(tasks), a, p, d) /\ Quiet
    \/ \E l \in LoopIds : StartWorkflow(l) /\ Quiet
    \/ \E l \in LoopIds : LoopPass(l) /\ Quiet
    \/ \E l \in LoopIds : LoopWake(l) /\ Quiet
    \/ \E l \in LoopIds, id \in IdSpace : ExecStart(l, id) /\ WithSubscribers(l, id)
    \/ \E l \in LoopIds, id \in IdSpace : ExecInvoke(l, id) /\ WithSubscribers(l, id)
    \/ \E l \in LoopIds, id \in IdSpace, r \in env.results :
          AgentReturn(l, id, r) /\ WithSubscribers(l, id)
    \/ \E l \in LoopIds, id \in IdSpace, e \in env.excs :
          AgentRaise(l, id, e) /\ WithSubscribers(l, id)
    \/ \E l \in LoopIds, id \in IdSpace : ExecFinish(l, id) /\ WithSubscribers(l, id)
    \/ \E l \in LoopIds : GatherDone(l) /\ Quiet
    \/ \E t \in env.subTypes, h \in CoordHandlers : coord_subscribe(t, h)
    \/ \E l \in LoopIds, id \in IdSpace : HandlerDone(l, id)

\* One loop, one agent, one task fewer; handlers subscribe to task_started
\* and task_completed.
InitObs ==
    /\ InitCoordinator
    /\ env = [priorities |-> {2},
              agentNames |-> {"backend"},
              registrable |-> {"backend"},
              kinds |-> {"exec"},
              unknownDeps |-> FALSE,
              results |-> {"payload"},
              excs |-> {[cls |-> "AgentError", msg |-> "boom"]},
              loops |-> {"L1"},
              maxTasks |-> MaxTasks - 1,
              subTypes |-> {TASK_STARTED, TASK_COMPLETED}]

SpecObs == InitObs /\ [][NextObs]_vars

\* The Coordinator with subscribers of which one raises.
NextRaise ==
    \/ \E n \in env.registrable, k \in env.kinds : register_agent(n, k) /\ Quiet
    \/ \E a \in env.agentNames, p \in env.priorities, d \in DepChoices :
          create_task(NewTaskId(tasks), a, p, d) /\ Quiet
    \/ \E l \in LoopIds : StartWorkflow(l) /\ Quiet
    \/ \E l \in LoopIds : LoopPass(l) /\ Quiet
    \/ \E l \in LoopIds : LoopWake(l) /\ Quiet
    \/ \E l \in LoopIds, id \in IdSpace : ExecStart(l, id) /\ WithSubscribers(l, id)
    \/ \E l \in LoopIds, id \in IdSpace : ExecInvoke(l, id) /\ WithSubscribers(l, id)
    \/ \E l \in LoopIds, id \in IdSpace, r \in env.results :
          AgentReturn(l, id, r) /\ WithSubscribers(l, id)
    \/ \E l \in LoopIds, id \in IdSpace, e \in env.excs :
          AgentRaise(l, id, e) /\ WithSubscribers(l, id)
    \/ \E l \in LoopIds, id \in IdSpace : ExecFinish(l, id) /\ WithSubscribers(l, id)
    \/ \E l \in LoopIds : GatherDone(l) /\ Quiet
    \/ \E t \in env.subTypes, h \in CoordHandlers \cup {"on_raise"} : coord_subscribe(t, h)
    \/ \E l \in LoopIds, id \in IdSpace : HandlerDone(l, id)

\* One loop, one agent, one task fewer; the handlers, a raising one among
\* them, subscribe to task_started and task_completed.
InitRaise ==
    /\ InitCoordinator
    /\ env = [priorities |-> {2},
              agentNames |-> {"backend"},
              registrable |-> {"backend"},
              kinds |-> {"exec"},
              unknownDeps |-> FALSE,
              results |-> {"payload"},
              excs |-> {[cls |-> "AgentError", msg |-> "boom"]},
              loops |-> {"L1"},
              maxTasks |-> MaxTasks - 1,
              subTypes |-> {TASK_STARTED, TASK_COMPLETED}]

SpecRaise == InitRaise /\ [][NextRaise]_vars

-----------------------------------------------------------------------------
(* The queue-based EventBus: its operations and the dispatcher *)

\* async subscribe(event_type, callback): the lock is free (no holder ever
\* awaits), so the call does not suspend. A callback subscribes to a type
\* once at a time.
bus_subscribe(event_type, callback) ==
    /\ callback \notin Range(qbus.subscribers[event_type])
    /\ qbus' = [qbus EXCEPT
          !.subscribers[event_type] = Append(@, callback),
          !.unsubd[event_type] = @ \ {callback},
          !.queue = [i \in DOMAIN @ |->
                       IF @[i].type = event_type
                       THEN [@[i] EXCEPT !.gone = @ \ {callback}] ELSE @[i]]]
    /\ UNCHANGED <<coordVars, cbus, wf>>

\* async unsubscribe(event_type, callback): the list is replaced by a new
\* list without the callback
bus_unsubscribe(event_type, callback) ==
    /\ qbus' = [qbus EXCEPT
          !.subscribers[event_type] = Without(@, callback),
          !.unsubd[event_type] = @ \cup {callback}]
    /\ UNCHANGED <<coordVars, cbus, wf>>

\* async clear(): self.subscribers.clear()
bus_clear ==
    /\ qbus' = [qbus EXCEPT !.subscribers = [t \in BusTypes |-> <<>>]]
    /\ UNCHANGED <<coordVars, cbus, wf>>

\* async publish(event): put on the unbounded queue, which never waits
bus_publish(event_type) ==
    /\ qbus.published < MaxEvents
    /\ LET n == qbus.published + 1 IN
       qbus' = [qbus EXCEPT
          !.published = n,
          !.queue = Append(@, [n |-> n, type |-> event_type,
                               gone |-> qbus.unsubd[event_type]]),
          !.owed = @ \cup {<<h, n>> : h \in Range(qbus.subscribers[event_type])}]
    /\ UNCHANGED <<coordVars, cbus, wf>>

\* the application starts process_events()
process_events ==
    /\ qbus.proc = "off"
    /\ qbus' = [qbus EXCEPT !.proc = "on"]
    /\ UNCHANGED <<coordVars, cbus, wf>>

\* process_events takes the next event and emit runs its for loop, which
\* has no await: the synchronous callbacks run in it, the coroutine callbacks
\* are only collected. A synchronous callback that raises ends emit (the
\* except of process_events logs it) and what was collected never runs;
\* otherwise gather schedules the collected coroutines.
emit(raiseAt) ==
    /\ qbus.proc = "on"
    /\ qbus.cur = NoEmit
    /\ qbus.queue # <<>>
    /\ LET ev == Head(qbus.queue)
           list == qbus.subscribers[ev.type]
           ran == SyncRun(list, raiseAt)
       IN /\ raiseAt \in RaiseChoices(list)
          /\ qbus' = [qbus EXCEPT
                !.queue = Tail(@),
                !.log = @ \o [i \in 1..Len(ran) |-> <<ran[i], ev.n>>],
                !.cur = IF raiseAt # 0 \/ Collected(list) = <<>> THEN NoEmit
                        ELSE [ev |-> ev, list |-> list, coros |-> Collected(list),
                              started |-> FALSE, live |-> {}]]
    /\ UNCHANGED <<coordVars, cbus, wf>>

\* the tasks that gather made run their first steps, in the order of their
\* creation (the event loop's ready queue is first in, first out)
GatherStart ==
    /\ qbus.cur # NoEmit /\ ~qbus.cur.started
    /\ qbus' = [qbus EXCEPT
          !.log = @ \o [i \in DOMAIN qbus.cur.coros |-> <<qbus.cur.coros[i], qbus.cur.ev.n>>],
          !.cur.started = TRUE,
          !.cur.live = DOMAIN qbus.cur.coros]
    /\ UNCHANGED <<coordVars, cbus, wf>>

\* the i-th coroutine of the gather returns or raises (return_exceptions
\* keeps the exception); with the last one done emit returns
CallbackDone(i) ==
    /\ qbus.cur.started
    /\ i \in qbus.cur.live
    /\ qbus' = [qbus EXCEPT
          !.cur = IF qbus.cur.live = {i} THEN NoEmit
                  ELSE [qbus.cur EXCEPT !.live = @ \ {i}]]
    /\ UNCHANGED <<coordVars, cbus, wf>>

NextBus ==
    \/ \E t \in BusTypes, h \in BusHandlers : bus_subscribe(t, h)
    \/ \E t \in BusTypes, h \in BusHandlers : bus_unsubscribe(t, h)
    \/ bus_clear
    \/ \E t \in BusTypes : bus_publish(t)
    \/ process_events
    \/ \E r \in 0..Cardinality(BusHandlers) : emit(r)
    \/ GatherStart
    \/ \E i \in 1..Cardinality(BusHandlers) : CallbackDone(i)

\* The bus alone: the Coordinator has no task and no agent.
SpecBus == Init /\ [][NextBus]_vars

-----------------------------------------------------------------------------
(* WorkflowEngine: its operations *)

\* async create_workflow(workflow_id, definition): the new dict replaces what
\* the id had, is saved and workflow_created is published. Nothing of it
\* follows an await that suspends.
create_workflow(workflow_id, definition, outcome) ==
    /\ Len(wf.heap) < MaxCreates
    /\ LET heap == Append(wf.heap, NewWorkflow(workflow_id, definition))
           ref == Len(heap)
           w1 == [wf EXCEPT !.heap = heap, !.workflows[workflow_id] = ref]
           w2 == save_workflow(w1, heap, workflow_id, ref, outcome, "create")
       IN wf' = wf_publish(w2, "workflow_created", workflow_id, NONE, "create")
    /\ UNCHANGED <<coordVars, cbus, qbus>>

ExecuteCall_Publish(c, workflow_id) ==
    /\ wf.call[c].pc = "idle"
    /\ IF wf.workflows[workflow_id] = 0
       THEN wf' = wf_publish(
                     [wf EXCEPT !.call[c] = [NoCall EXCEPT !.pc = "not_found",
                                                          !.id = workflow_id]],
                     "workflow_failed", workflow_id, NONE, c)
       ELSE LET ref == wf.workflows[workflow_id]
                w1 == [wf EXCEPT !.heap[ref].status = W_RUNNING,
                                 !.call[c] = [pc |-> "loop", id |-> workflow_id,
                                              ref |-> ref, idx |-> 0]]
            IN wf' = wf_publish(w1, "workflow_started", workflow_id, NONE, c)
    /\ UNCHANGED <<coordVars, cbus, qbus>>

\* execute_workflow(workflow_id) is called: ValueError for an unknown id,
\* else status running and workflow_started published, where the call can
\* suspend
ExecuteCall(c, workflow_id) ==
    /\ wf.call[c].pc = "idle"
    /\ IF wf.workflows[workflow_id] = 0
       THEN wf' = [wf EXCEPT !.call[c] = [NoCall EXCEPT !.pc = "not_found",
                                                        !.id = workflow_id]]
       ELSE LET ref == wf.workflows[workflow_id]
                w1 == [wf EXCEPT !.heap[ref].status = W_RUNNING,
                                 !.call[c] = [pc |-> "loop", id |-> workflow_id,
                                              ref |-> ref, idx |-> 0]]
            IN wf' = wf_publish(w1, "workflow_started", workflow_id, NONE, c)
    /\ UNCHANGED <<coordVars, cbus, qbus>>

\* the stages of the call's workflow dict
StagesOf(c) == wf.heap[wf.call[c].ref].definition

ExecuteStage_Continue(c) ==
    /\ wf.call[c].pc = "loop"
    /\ wf.call[c].idx < Len(wf.heap[wf.call[c].ref].definition)
    /\ LET k == wf.call[c]
           stage == StageAt(wf.heap[k.ref].definition, k.idx)
       IN IF stage = "notdict"
          THEN wf' = [wf EXCEPT !.heap[k.ref].current_stage = k.idx,
                                !.call[c].idx = k.idx + 1]
          ELSE wf' = wf_publish(
                        [wf EXCEPT !.heap[k.ref].current_stage = k.idx,
                                   !.call[c].idx = k.idx + 1],
                        "stage_started", k.id, StageName(stage, k.idx), c)
    /\ UNCHANGED <<coordVars, cbus, qbus>>

\* one pass of the for loop: current_stage = idx and _execute_stage, which
\* publishes stage_started; then the call sleeps. A stage that is no dict
\* raises in _execute_stage: the except sets failed and the error and
\* publishes workflow_failed.
ExecuteStage(c) ==
    /\ wf.call[c].pc = "loop"
    /\ wf.call[c].idx < Len(StagesOf(c))
    /\ LET k == wf.call[c]
           stage == StageAt(StagesOf(c), k.idx)
       IN IF stage = "notdict"
          THEN wf' = wf_publish(
                        [wf EXCEPT !.heap[k.ref].current_stage = k.idx,
                                   !.heap[k.ref].status = W_FAILED,
                                   !.heap[k.ref].error = StageError,
                                   !.call[c].pc = "finishing"],
                        "workflow_failed", k.id, StageError, c)
          ELSE wf' = wf_publish(
                        [wf EXCEPT !.heap[k.ref].current_stage = k.idx,
                                   !.call[c].idx = k.idx + 1],
                        "stage_started", k.id, StageName(stage, k.idx), c)
    /\ UNCHANGED <<coordVars, cbus, qbus>>

ExecuteComplete_NoEvent(c) ==
    /\ wf.call[c].pc = "loop"
    /\ wf.call[c].idx = Len(wf.heap[wf.call[c].ref].definition)
    /\ wf' = [wf EXCEPT !.heap[wf.call[c].ref].status = W_COMPLETED,
                        !.call[c].pc = "finishing"]
    /\ UNCHANGED <<coordVars, cbus, qbus>>

\* the for loop is over: status completed, workflow_completed published
ExecuteComplete(c) ==
    /\ wf.call[c].pc = "loop"
    /\ wf.call[c].idx = Len(StagesOf(c))
    /\ wf' = wf_publish([wf EXCEPT !.heap[wf.call[c].ref].status = W_COMPLETED,
                                   !.call[c].pc = "finishing"],
                        "workflow_completed", wf.call[c].id, NONE, c)
    /\ UNCHANGED <<coordVars, cbus, qbus>>

\* after the publish of the terminal event: save_workflow and return workflow
ExecuteSave(c, outcome) ==
    /\ wf.call[c].pc = "finishing"
    /\ wf' = save_workflow([wf EXCEPT !.call[c].pc = "returned"], wf.heap,
                           wf.call[c].id, wf.call[c].ref, outcome, c)
    /\ UNCHANGED <<coordVars, cbus, qbus>>

NextEngine ==
    \/ \E w \in env.createIds, d \in env.definitions, o \in env.storeOutcomes :
          create_workflow(w, d, o)
    \/ \E c \in env.calls, w \in WfIds : ExecuteCall(c, w)
    \/ \E c \in CallIds : ExecuteStage(c)
    \/ \E c \in CallIds : ExecuteComplete(c)
    \/ \E c \in CallIds, o \in env.storeOutcomes : ExecuteSave(c, o)

-----------------------------------------------------------------------------
(* The queries, and the engine with a redis client in its StateManager *)

\* await state_manager.get_workflow(workflow_id)
get_workflow(workflow_id, how) ==
    /\ how = "hit" => wf.redis[workflow_id] # Absent
    /\ wf' = [wf EXCEPT !.reply = [op |-> "get_workflow", id |-> workflow_id, task |-> 0,
                                   how |-> how,
                                   value |-> GetWorkflow(wf, workflow_id, how)]]
    /\ UNCHANGED <<coordVars, cbus, qbus>>

\* engine.get_workflow_status(workflow_id)
get_workflow_status(workflow_id) ==
    /\ wf' = [wf EXCEPT !.reply = [op |-> "get_workflow_status", id |-> workflow_id, task |-> 0,
                                   how |-> NONE,
                                   value |-> WorkflowStatus(wf, workflow_id)]]
    /\ UNCHANGED <<coordVars, cbus, qbus>>

\* coordinator.get_task_status(task_id)
get_task_status(task_id) ==
    /\ wf' = [wf EXCEPT !.reply = [op |-> "get_task_status", id |-> NONE, task |-> task_id,
                                   how |-> NONE,
                                   value |-> TaskStatus(tasks, task_id)]]
    /\ UNCHANGED <<coordVars, cbus, qbus>>

NextStore ==
    \/ NextEngine
    \/ \E a \in env.agentNames, p \in env.priorities, d \in DepChoices :
          create_task(NewTaskId(tasks), a, p, d) /\ Quiet
    \/ \E w \in WfIds, h \in env.getOutcomes : get_workflow(w, h)
    \/ \E w \in WfIds : get_workflow_status(w)
    \/ \E t \in IdSpace \cup {UnknownId} : get_task_status(t)

\* A StateManager with a redis client that stores, refuses or raises; one
\* execute_workflow call; one task.
\* The engine with one-stage definitions and no store; the event loop runs
\* every execute_workflow coroutine that can run: a call that is past the
\* not-found test makes its passes and ends. Calls from outside
\* (create_workflow, execute_workflow) need not happen.
InitShort ==
    /\ InitCoordinator
    /\ env = [priorities |-> {2},
              agentNames |-> {"backend"},
              registrable |-> {"backend"},
              kinds |-> {"exec"},
              unknownDeps |-> FALSE,
              results |-> {"payload"},
              excs |-> {[cls |-> "AgentError", msg |-> "boom"]},
              loops |-> {"L1"},
              maxTasks |-> 0,
              createIds |-> {"w1"},
              definitions |-> {d \in Definitions : Len(d) <= 1},
              storeOutcomes |-> {"none"},
              calls |-> CallIds]

FairnessEngine ==
    \A c \in CallIds :
       /\ WF_vars(ExecuteStage(c))
       /\ WF_vars(ExecuteComplete(c))
       /\ WF_vars(\E o \in env.storeOutcomes : ExecuteSave(c, o))

FairSpecEngine == InitShort /\ [][NextEngine]_vars /\ FairnessEngine

\* a definition of one stage more than the engine's checks enumerate: the
\* second and the third stage follow a finished stage
LongDefinition == [i \in 1..(MaxStages + 1) |-> "named"]

InitStore ==
    /\ InitCoordinator
    /\ env = [priorities |-> {2},
              agentNames |-> {"backend"},
              registrable |-> {"backend"},
              kinds |-> {"exec"},
              unknownDeps |-> FALSE,
              results |-> {"payload"},
              excs |-> {[cls |-> "AgentError", msg |-> "boom"]},
              loops |-> {"L1"},
              maxTasks |-> 1,
              createIds |-> {"w1"},
              definitions |-> {d \in Definitions : \A i \in DOMAIN d : d[i] # "unnamed"}
                                 \cup {LongDefinition},
              storeOutcomes |-> {"stored", "refused", "raised"},
              getOutcomes |-> {"hit", "absent", "raised"},
              calls |-> {"X1"}]

SpecStore == InitStore /\ [][NextStore]_vars

\* One execute_workflow call at a time is not assumed: two calls, on ids that
\* were created or not.
InitEngineSpec ==
    /\ InitCoordinator
    /\ env = [priorities |-> {2},
              agentNames |-> {"backend"},
              registrable |-> {"backend"},
              kinds |-> {"exec"},
              unknownDeps |-> FALSE,
              results |-> {"payload"},
              excs |-> {[cls |-> "AgentError", msg |-> "boom"]},
              loops |-> {"L1"},
              maxTasks |-> MaxTasks,
              createIds |-> {"w1"},
              definitions |-> Definitions,
              storeOutcomes |-> {"none", "stored", "refused", "raised"},
              calls |-> CallIds]

SpecEngine == InitEngineSpec /\ [][NextEngine]_vars

\* Two run_workflow calls on one Coordinator (nothing in the code prevents a
\* second call while the first is running); one agent, one priority, one
\* task fewer than elsewhere.
Init2 ==
    /\ InitCoordinator
    /\ env = [priorities |-> {2},
              agentNames |-> {"backend"},
              registrable |-> {"backend"},
              kinds |-> {"exec"},
              unknownDeps |-> FALSE,
              results |-> {"payload"},
              excs |-> {[cls |-> "AgentError", msg |-> "boom"]},
              loops |-> {"L1", "L2"},
              maxTasks |-> MaxTasks - 1]

Spec2 == Init2 /\ [][Next]_vars

-----------------------------------------------------------------------------
(* Vocabulary of the properties *)

Terminal == {COMPLETED, FAILED}

\* the value of get_ready_tasks() in the current state
Ready == get_ready_tasks(tasks)

\* the position of a task in creation order
Pos(id) == CHOOSE i \in DOMAIN tasks : tasks[i].id = id

\* id names a task and that task is Completed
NamesCompleted(id) == \E i \in DOMAIN tasks : tasks[i].id = id /\ tasks[i].state = COMPLETED

\* t is Pending and each of its dependencies names a Completed task
Eligible(t) == t.state = PENDING /\ \A d \in t.dependencies : NamesCompleted(d)

Count(seq, x) == Cardinality({i \in DOMAIN seq : seq[i] = x})

-----------------------------------------------------------------------------
(* C1: every task get_ready_tasks() returns is a stored task that is Pending
   and each id of its dependency list names a task that is Completed; so a
   dependency that is Pending, Running, Failed or names no task keeps the
   task out of the result. *)
C1_ReadyOnlyEligible ==
    \A i \in DOMAIN Ready :
        /\ \E j \in DOMAIN tasks : tasks[j] = Ready[i]
        /\ Ready[i].state = PENDING
        /\ \A d \in Ready[i].dependencies : NamesCompleted(d)

\* a returned task with dependencies, beside Pending tasks kept out by a
\* dependency that names no task and by one that is not Completed
C1_Witness ==
    /\ \E i \in DOMAIN Ready : Ready[i].dependencies # {}
    /\ \E j \in DOMAIN tasks :
          /\ tasks[j].state = PENDING
          /\ UnknownId \in tasks[j].dependencies
          /\ \A i \in DOMAIN Ready : Ready[i].id # tasks[j].id

(* C2: get_ready_tasks() omits no eligible task; and for A (no deps,
   priority 1), B (deps = [A], priority 5): while A is Pending the result is
   exactly [A], and once A is Completed (B still Pending) it is exactly [B]. *)
C2_Scenario ==
    /\ Len(tasks) = 2
    /\ tasks[1].priority = 1 /\ tasks[1].dependencies = {}
    /\ tasks[2].priority = 5 /\ tasks[2].dependencies = {tasks[1].id}

C2_ReadyComplete ==
    /\ \A j \in DOMAIN tasks :
          Eligible(tasks[j]) => \E i \in DOMAIN Ready : Ready[i] = tasks[j]
    /\ C2_Scenario /\ tasks[1].state = PENDING /\ tasks[2].state = PENDING
          => Ready = <<tasks[1]>>
    /\ C2_Scenario /\ tasks[1].state = COMPLETED /\ tasks[2].state = PENDING
          => Ready = <<tasks[2]>>

\* the pass after A completed: the loop is about to compute readiness again
C2_Witness ==
    /\ C2_Scenario
    /\ tasks[1].state = COMPLETED /\ tasks[2].state = PENDING
    /\ loops["L1"].pc = "check"
    /\ batchOf[1] = 1

(* C3: the result of get_ready_tasks() is ordered by non-increasing priority,
   tasks of equal priority in creation order; A(1), B(3), C(1) without
   dependencies, all Pending, give [B, A, C]. *)
C3_Scenario ==
    /\ Len(tasks) = 3
    /\ \A i \in 1..3 : tasks[i].dependencies = {} /\ tasks[i].state = PENDING
    /\ tasks[1].priority = 1 /\ tasks[2].priority = 3 /\ tasks[3].priority = 1

C3_ReadySortedStable ==
    /\ \A i, j \in DOMAIN Ready :
          i < j =>
            /\ Ready[i].priority >= Ready[j].priority
            /\ Ready[i].priority = Ready[j].priority => Pos(Ready[i].id) < Pos(Ready[j].id)
    /\ C3_Scenario => Ready = <<tasks[2], tasks[1], tasks[3]>>

C3_Witness == C3_Scenario /\ Len(Ready) = 3 /\ loops["L1"].pc = "check"

(* C5: every task that is Running, Completed or Failed has all of its
   dependencies Completed: no task is started before each of its
   dependencies has completed. *)
C5_StartedAfterDeps ==
    \A i \in DOMAIN tasks :
        tasks[i].state # PENDING =>
            \A d \in tasks[i].dependencies : NamesCompleted(d)

\* a task with two dependencies is Running
C5_Witness ==
    \E i \in DOMAIN tasks :
        tasks[i].state = RUNNING /\ Cardinality(tasks[i].dependencies) = 2


-----------------------------------------------------------------------------
(* Properties of execution under one run_workflow loop *)

Transition(i) == <<tasks[i].state, tasks'[i].state>>

\* the dependencies of a task, direct and indirect, that name tasks
RECURSIVE DepsWithin(_, _)
DepsWithin(id, n) ==
    IF n = 0 THEN {}
    ELSE LET direct == TaskOf(tasks, id).dependencies \cap Ids(tasks)
         IN direct \cup UNION {DepsWithin(d, n - 1) : d \in direct}

TransitiveDeps(id) == DepsWithin(id, Len(tasks))

\* some dependency of the task, direct or indirect, is Failed
Blocked(id) == \E d \in TransitiveDeps(id) : TaskOf(tasks, d).state = FAILED

(* C4: a task's state changes only by Pending->Running, Running->Completed
   or Running->Failed, so a Completed or Failed task never changes state
   again; a coroutine is created only for a Pending task, and a task is
   started at most once (no retry). *)
C4_Transitions ==
    /\ [][\A i \in DOMAIN tasks :
            /\ tasks'[i].state # tasks[i].state =>
                  Transition(i) \in {<<PENDING, RUNNING>>, <<RUNNING, COMPLETED>>,
                                     <<RUNNING, FAILED>>}
            /\ \A l \in LoopIds :
                  co'[l][tasks[i].id] = "new" /\ co[l][tasks[i].id] # "new"
                      => tasks[i].state = PENDING /\ events[tasks[i].id] = <<>>]_vars
    /\ [](\A id \in IdSpace : Count(events[id], TASK_STARTED) <= 1)

\* a Failed and a Completed task, and the loop has passed again and returned
C4_Witness ==
    /\ loops["L1"].pc = "returned"
    /\ \E i, j \in DOMAIN tasks : tasks[i].state = FAILED /\ tasks[j].state = COMPLETED

(* C6: a task with a Failed dependency, direct or indirect, is Pending, has
   no coroutine and no event; and it stays so in every later state, whatever
   the number of readiness passes. *)
C6_BlockedStaysPending ==
    /\ [](\A id \in Ids(tasks) :
            Blocked(id) =>
                /\ TaskOf(tasks, id).state = PENDING
                /\ \A l \in LoopIds : co[l][id] = "none"
                /\ events[id] = <<>>)
    /\ [][\A id \in Ids(tasks) : Blocked(id) => Blocked(id)']_vars

\* D Failed, T depends on D, U depends on T, and the loop found nothing ready
C6_Witness ==
    /\ Len(tasks) = 3
    /\ tasks[1].state = FAILED
    /\ tasks[2].dependencies = {1} /\ tasks[3].dependencies = {2}
    /\ tasks[2].state = PENDING /\ tasks[3].state = PENDING
    /\ loops["L1"].pc = "sleep"

(* C7: batches are sequential: when a task has been dispatched in a later
   batch, every task of each earlier batch is Completed or Failed; and a
   task is dispatched in a later batch than each of its dependencies. *)
C7_BatchBarrier ==
    /\ \A t, u \in Ids(tasks) :
          0 < batchOf[t] /\ batchOf[t] < batchOf[u]
              => TaskOf(tasks, t).state \in Terminal
    /\ \A u \in Ids(tasks) :
          batchOf[u] > 0 =>
              \A d \in TaskOf(tasks, u).dependencies :
                  d \in Ids(tasks) /\ 0 < batchOf[d] /\ batchOf[d] < batchOf[u]

\* a batch of two, then the dependent of one of them Running in the next batch
C7_Witness ==
    /\ Len(tasks) = 3
    /\ batchOf[1] = 1 /\ batchOf[2] = 1 /\ batchOf[3] = 2
    /\ tasks[3].dependencies = {1}
    /\ tasks[3].state = RUNNING

(* C8: execute_task on a task whose assigned agent has no registered
   capability (not registered, or an object without execute) leaves the task
   Failed with a non-empty error and no result, the events about it being
   task_started then one task_failed; and a task with that error stays so. *)
NoCapability(name) == agents[name] \in {NONE, "noexec"}

NotFoundOutcome(id) ==
    /\ TaskOf(tasks, id).state = FAILED
    /\ TaskOf(tasks, id).error \notin {NONE, ""}
    /\ TaskOf(tasks, id).result = NONE
    /\ Count(events[id], TASK_FAILED) = 1
    /\ Count(events[id], TASK_COMPLETED) = 0

C8_NoCapabilityFails ==
    /\ [][\A l \in LoopIds, id \in Ids(tasks) :
            /\ co[l][id] = "started" /\ co'[l][id] # "started"
            /\ NoCapability(TaskOf(tasks, id).assigned_agent)
            => NotFoundOutcome(id)' /\ co'[l][id] = "pub_failed"]_vars
    /\ [](\A id \in Ids(tasks) :
            TaskOf(tasks, id).error = AgentNotFound(TaskOf(tasks, id).assigned_agent).msg
                => NotFoundOutcome(id))

\* execute_task has returned for a task whose agent is an object without execute
C8_Witness ==
    \E id \in Ids(tasks) :
        /\ co["L1"][id] = "done"
        /\ agents[TaskOf(tasks, id).assigned_agent] = "noexec"
        /\ TaskOf(tasks, id).error = AgentNotFound(TaskOf(tasks, id).assigned_agent).msg
        /\ events[id] = <<TASK_STARTED, TASK_FAILED>>

(* C9: when the agent's execute raises, the task becomes Failed with the
   exception's message as its error and task_failed published, no other task
   changes, and the exception leaves neither execute_task nor run_workflow. *)
C9_RaiseConfined ==
    /\ [][\A l \in LoopIds, id \in Ids(tasks) :
            /\ co[l][id] = "agent" /\ co'[l][id] # "agent"
            /\ TaskOf(tasks, id).state' # COMPLETED
            => /\ co'[l][id] = "pub_failed"
               /\ TaskOf(tasks, id).state' = FAILED
               /\ \E e \in env.excs : TaskOf(tasks, id).error' = e.msg
               /\ events'[id] = Append(events[id], TASK_FAILED)
               /\ \A i \in DOMAIN tasks : tasks[i].id # id => tasks'[i] = tasks[i]
               /\ loops' = loops]_vars
    /\ [](/\ \A l \in LoopIds, id \in IdSpace : co[l][id] # "raised"
          /\ \A l \in LoopIds : loops[l].pc # "crashed")

\* an agent raised, and run_workflow has returned its status
C9_Witness ==
    /\ loops["L1"].pc = "returned"
    /\ \E i, j \in DOMAIN tasks :
          /\ tasks[i].state = FAILED /\ tasks[i].error = "boom"
          /\ tasks[j].state = COMPLETED

(* C10: a task's failure touches no other task and no other coroutine, and
   the loop goes on: every task dispatched in a batch reaches Completed or
   Failed whatever happens to the others of the batch (one whose agent
   returns becomes Completed), and while the loop runs, a task that is ready
   is started although other tasks have failed. *)
SomeFailed == \E i \in DOMAIN tasks : tasks[i].state = FAILED

LoopRuns(l) == loops[l].pc \in {"check", "sleep", "gather"}

C10_FailureIsLocal ==
    /\ [][\A i \in DOMAIN tasks :
            tasks[i].state # FAILED /\ tasks'[i].state = FAILED =>
                /\ \A j \in DOMAIN tasks : j # i => tasks'[j] = tasks[j]
                /\ \A l \in LoopIds, id \in IdSpace :
                      id # tasks[i].id => co'[l][id] = co[l][id]
                /\ loops' = loops]_vars
    /\ [][\A l \in LoopIds, id \in Ids(tasks) :
            co[l][id] = "agent" /\ co'[l][id] = "pub_completed"
                => TaskOf(tasks, id).state' = COMPLETED]_vars
    /\ \A id \in IdSpace :
          (co["L1"][id] = "new") ~> (id \in Ids(tasks) /\ TaskOf(tasks, id).state \in Terminal)
    /\ \A id \in IdSpace :
          (/\ SomeFailed /\ LoopRuns("L1")
           /\ id \in Ids(tasks) /\ Eligible(TaskOf(tasks, id)))
              ~> (id \in Ids(tasks) /\ TaskOf(tasks, id).state # PENDING)

\* one batch of two, one Failed and one Completed, and a task that depends
\* only on the Completed one running in the next batch
C10_Witness ==
    /\ Len(tasks) = 3
    /\ batchOf[1] = 1 /\ batchOf[2] = 1 /\ batchOf[3] = 2
    /\ tasks[1].state = FAILED /\ tasks[2].state = COMPLETED
    /\ tasks[3].dependencies = {2}
    /\ tasks[3].state = RUNNING

(* C11: when no task fails (every dependency names a task, every agent is
   registered and returns), a running run_workflow eventually returns; and
   at the step at which it returns no task is Pending or Running, so that
   every task is Completed unless one has Failed. *)
C11_ReturnsAllCompleted ==
    /\ [][\A l \in LoopIds :
            loops[l].pc # "returned" /\ loops'[l].pc = "returned" =>
                /\ \A i \in DOMAIN tasks' : tasks'[i].state \in Terminal
                /\ ~SomeFailed' => \A i \in DOMAIN tasks' : tasks'[i].state = COMPLETED]_vars
    /\ LoopRuns("L1") ~> (loops["L1"].pc = "returned" \/ SomeFailed)

\* run_workflow has returned with three tasks Completed, one after its dependencies
C11_Witness ==
    /\ loops["L1"].pc = "returned"
    /\ Len(tasks) = 3
    /\ \A i \in 1..3 : tasks[i].state = COMPLETED
    /\ tasks[3].dependencies = {1, 2}
    /\ loops["L1"].ret.state_breakdown = [s \in {COMPLETED} |-> 3]

(* C12: run_workflow does not block indefinitely: whenever it runs, it
   eventually returns (agent calls terminate), also when a Pending task can
   never become ready. *)
C12_AlwaysReturns == LoopRuns("L1") ~> (loops["L1"].pc = "returned")

(* C15: the events published about a task follow its state: none while it
   is Pending, task_started alone while it is Running, task_started then
   task_completed once it is Completed, task_started then task_failed once
   it is Failed; never both terminal events. *)
C15_EventsFollowState ==
    \A id \in Ids(tasks) :
        LET st == TaskOf(tasks, id).state IN
        /\ st = PENDING => events[id] = <<>>
        /\ st = RUNNING => events[id] = <<TASK_STARTED>>
        /\ st = COMPLETED => events[id] = <<TASK_STARTED, TASK_COMPLETED>>
        /\ st = FAILED => events[id] = <<TASK_STARTED, TASK_FAILED>>

\* run_workflow has returned after a task that Completed and one that Failed
C15_Witness ==
    /\ loops["L1"].pc = "returned"
    /\ \E i, j \in DOMAIN tasks :
          /\ events[tasks[i].id] = <<TASK_STARTED, TASK_COMPLETED>>
          /\ events[tasks[j].id] = <<TASK_STARTED, TASK_FAILED>>

(* C13: two execute_task calls on the same task are serialized: while one
   is between its Running transition and its terminal transition, no other
   has set the task Running or invoked the agent. *)
InFlight == {"started", "agent"}

C13_Serialized ==
    \A id \in IdSpace : ~(co["L1"][id] \in InFlight /\ co["L2"][id] \in InFlight)

(* C16: a task whose result is set is Completed and a task whose error is
   set is Failed; a Pending or Running task has neither, and no task has
   both. *)
C16_ResultErrorMatchState ==
    \A i \in DOMAIN tasks :
        /\ tasks[i].result # NONE => tasks[i].state = COMPLETED
        /\ tasks[i].error # NONE => tasks[i].state = FAILED

(* C17: every create_task call returns an id that no stored task has, adds
   exactly one Pending task without result or error, and leaves every stored
   task present and unchanged. *)
C17_CreateAddsFresh ==
    [][tasks' # tasks =>
        /\ Len(tasks') = Len(tasks) + 1
        /\ tasks'[Len(tasks')].id \notin Ids(tasks)
        /\ tasks'[Len(tasks')].state = PENDING
        /\ tasks'[Len(tasks')].result = NONE /\ tasks'[Len(tasks')].error = NONE
        /\ \A i \in DOMAIN tasks : tasks'[i] = tasks[i]]_vars

\* the event that matches a state
EventOf(st) ==
    CASE st = RUNNING -> TASK_STARTED
      [] st = COMPLETED -> TASK_COMPLETED
      [] st = FAILED -> TASK_FAILED

(* C14: a task's state change and its event are atomic for observers: at no
   await point inside execute_task (publish suspended in a coroutine handler,
   where another coroutine can run and see the task's state) is the event of
   the task's current state still to be delivered to a handler that was
   subscribed to its type when the event was published. *)
C14_AtomicForObservers ==
    \A l \in LoopIds, id \in IdSpace :
        LET p == cbus.pub[l][id] IN
        p.idx > 0 =>
            /\ p.type = EventOf(TaskOf(tasks, id).state)
            /\ p.len <= p.idx

\* the dispatcher runs and has nothing left to deliver
Quiescent == qbus.proc = "on" /\ qbus.queue = <<>> /\ qbus.cur = NoEmit

\* how often callback h started for event n
Starts(h, n) == Cardinality({i \in DOMAIN qbus.log : qbus.log[i] = <<h, n>>})

(* C18: with the queue-based EventBus, once the dispatcher has emptied the
   queue, a handler has received every event that was published while it
   was subscribed to the event's type (also one that was still queued when
   the handler unsubscribed), each exactly once and in publish order. *)
C18_ReceivesWhileSubscribed ==
    Quiescent =>
        /\ \A h \in BusHandlers, n \in 1..qbus.published :
              <<h, n>> \in qbus.owed => Starts(h, n) = 1
        /\ \A i, j \in DOMAIN qbus.log :
              i < j /\ qbus.log[i][1] = qbus.log[j][1] => qbus.log[i][2] < qbus.log[j][2]

\* the event with number n that is queued or being emitted
EventNo(n) ==
    IF qbus.cur.ev.n = n THEN qbus.cur.ev
    ELSE CHOOSE e \in Range(qbus.queue) : e.n = n

\* the starts that a step adds to the log
NewStarts == {qbus'.log[k] : k \in (Len(qbus.log) + 1)..Len(qbus'.log)}

(* C19: after unsubscribe(event_type, h) has returned (and while h does not
   subscribe to the type again), h is started for no event that was
   published after the call; and the coroutines that an emit has collected
   are kept and all started by its gather, also the one of a handler that
   unsubscribed in between. *)
C19_UnsubscribeStops ==
    [][/\ \A s \in NewStarts : s[1] \notin EventNo(s[2]).gone
       /\ (qbus.cur # NoEmit /\ ~qbus.cur.started) =>
             /\ qbus'.cur.coros = qbus.cur.coros
             /\ qbus'.cur.started =>
                   \A i \in DOMAIN qbus.cur.coros :
                       <<qbus.cur.coros[i], qbus.cur.ev.n>> \in NewStarts]_vars

\* a handler unsubscribed while the gather of an emit had its coroutine, and
\* an event published after that is queued
C19_Witness ==
    /\ qbus.cur # NoEmit /\ ~qbus.cur.started
    /\ \E h \in Range(qbus.cur.coros) :
          /\ h \in qbus.unsubd[qbus.cur.ev.type]
          /\ \E i \in DOMAIN qbus.queue :
                qbus.queue[i].type = qbus.cur.ev.type /\ h \in qbus.queue[i].gone

\* the callbacks started so far for event n, in the order of their starts
RECURSIVE StartedFor(_, _)
StartedFor(log, n) ==
    IF log = <<>> THEN <<>>
    ELSE IF Head(log)[2] = n THEN <<Head(log)[1]>> \o StartedFor(Tail(log), n)
         ELSE StartedFor(Tail(log), n)

IsPrefix(a, b) == Len(a) <= Len(b) /\ SubSeq(b, 1, Len(a)) = a

(* C20: emit starts the handlers of an event's type in the order in which
   they subscribed, whatever mix of synchronous and coroutine handlers: while
   an emit is under way, the handlers started for its event are the first
   ones of the subscriber list it iterates. *)
C20_SubscriptionOrder ==
    qbus.cur # NoEmit => IsPrefix(StartedFor(qbus.log, qbus.cur.ev.n), qbus.cur.list)

(* C21: a handler of the queue-based EventBus that raises keeps no other
   handler of the event's type from receiving the event and does not stop
   process_events: when process_events takes an event, every handler
   subscribed to its type is started in emit's loop or is collected for the
   gather that starts it, and process_events stays running. *)
C21_RaiseIsolated ==
    [][Len(qbus'.queue) < Len(qbus.queue) =>
          LET ev == Head(qbus.queue) IN
          /\ \A h \in Range(qbus.subscribers[ev.type]) :
                <<h, ev.n>> \in NewStarts \/ h \in Range(qbus'.cur.coros)
          /\ qbus'.proc = "on"]_vars

\* the position of the first element of seq that is x (0: none)
FirstPos(seq, x) ==
    IF \E k \in DOMAIN seq : seq[k] = x
    THEN CHOOSE k \in DOMAIN seq : seq[k] = x /\ \A m \in 1..(k - 1) : seq[m] # x
    ELSE 0

(* C22: with the Coordinator's EventBus, every subscriber receives the events
   of one type in the order of their publish calls: of two events of a type
   that a handler has received, the one published first was received first. *)
C22_PublishOrder ==
    \A h \in CoordHandlers, i, j \in DOMAIN cbus.calls :
        LET a == <<h, cbus.calls[i][1], cbus.calls[i][2]>>
            b == <<h, cbus.calls[j][1], cbus.calls[j][2]>>
        IN (/\ i < j
            /\ cbus.calls[i][1] = cbus.calls[j][1]
            /\ FirstPos(cbus.seen, a) # 0
            /\ FirstPos(cbus.seen, b) # 0)
           => FirstPos(cbus.seen, a) < FirstPos(cbus.seen, b)

(* C23: no subscribe takes effect on a subscriber list during a publish
   iteration over it. Coordinator's publish: when a publish suspended in
   handler idx goes on, it invokes no more handlers than the list had left
   when publish was called. Queue-based emit: the handlers a gather starts
   are handlers of the list that emit iterated. *)
C23_NoMutationInFlight ==
    [][/\ \A l \in LoopIds, id \in IdSpace :
             LET p == cbus.pub[l][id] IN
             (p.idx > 0 /\ cbus'.pub[l][id] # p) =>
                 Len(cbus'.seen) - Len(cbus.seen) <= p.len - p.idx
       /\ qbus.cur # NoEmit => \A s \in NewStarts : s[1] \in Range(qbus.cur.list)]_vars

-----------------------------------------------------------------------------
(* Properties of the WorkflowEngine *)

\* the events that call c has published, without the caller's mark
EventsBy(c) ==
    LET mine == SelectSeq(wf.events, LAMBDA e : e[4] = c)
    IN [i \in DOMAIN mine |-> <<mine[i][1], mine[i][2], mine[i][3]>>]

\* the call went past the not-found test
Entered(c) == wf.call[c].pc \in {"loop", "finishing", "returned"}

\* the call has left the for loop
LoopOver(c) == wf.call[c].pc \in {"finishing", "returned"}

\* stage_started of the first n stages of c's workflow, in definition order
StageEvents(c, n) ==
    [i \in 1..n |-> <<"stage_started", wf.call[c].id,
                      StageName(StagesOf(c)[i], i - 1)>>]

(* C24: execute_workflow processes the stages strictly in definition order:
   each pass sets current_stage to the next index 0, 1, .. and the events of
   a call are workflow_started, then stage_started of the stages in
   definition order, one per pass made, then (all stages done)
   workflow_completed. *)
C24_StagesInOrder ==
    /\ [](\A c \in CallIds : Entered(c) =>
            LET k == wf.call[c] IN
            /\ SubSeq(EventsBy(c), 1, 1 + k.idx) =
                  <<<<"workflow_started", k.id, NONE>>>> \o StageEvents(c, k.idx)
            /\ (LoopOver(c) /\ k.idx = Len(StagesOf(c))) =>
                  EventsBy(c) = <<<<"workflow_started", k.id, NONE>>>>
                                \o StageEvents(c, k.idx)
                                \o <<<<"workflow_completed", k.id, NONE>>>>)
    /\ [][\A c \in CallIds :
             (Entered(c) /\ wf'.call[c].idx = wf.call[c].idx + 1) =>
                 wf'.heap[wf.call[c].ref].current_stage = wf.call[c].idx]_vars

\* a call has completed a workflow of MaxStages stages
C24_Witness ==
    \E c \in CallIds :
        /\ wf.call[c].pc = "returned"
        /\ wf.call[c].idx = MaxStages
        /\ Len(EventsBy(c)) = MaxStages + 2

\* the position of the first stage that raises (0: no stage raises)
FirstRaising(stages) ==
    IF \E i \in DOMAIN stages : stages[i] = "notdict"
    THEN CHOOSE i \in DOMAIN stages :
             stages[i] = "notdict" /\ \A j \in 1..(i - 1) : stages[j] # "notdict"
    ELSE 0

\* another call than c works on the dict of c
Overlapped(c) ==
    \E d \in CallIds \ {c} : Entered(d) /\ wf.call[d].ref = wf.call[c].ref

(* C25: if executing stage i raises, execute_workflow stops the loop at once:
   the call makes no pass for a later stage and publishes no stage_started
   for stage i or a later one; the raise sets status failed and the error;
   after the loop the call's events are workflow_started, stage_started of
   the stages before i, workflow_failed, and no workflow_completed; and the
   call returns with the status failed unless another call works on the same
   workflow. *)
C25_StageFailureStops ==
    /\ [](\A c \in CallIds :
            LET k == wf.call[c]
                r == FirstRaising(StagesOf(c))
            IN (Entered(c) /\ r # 0) =>
                 /\ k.idx <= r - 1
                 /\ LoopOver(c) =>
                       EventsBy(c) = <<<<"workflow_started", k.id, NONE>>>>
                                     \o StageEvents(c, r - 1)
                                     \o <<<<"workflow_failed", k.id, StageError>>>>)
    /\ [][\A c \in CallIds :
             LET k == wf.call[c]
                 r == FirstRaising(StagesOf(c))
             IN (Entered(c) /\ r # 0) =>
                  /\ (k.pc = "loop" /\ wf'.call[c].pc = "finishing") =>
                        /\ wf'.heap[k.ref].status = W_FAILED
                        /\ wf'.heap[k.ref].error = StageError
                  /\ (k.pc = "finishing" /\ wf'.call[c].pc = "returned"
                         /\ ~Overlapped(c)) =>
                        wf'.heap[k.ref].status = W_FAILED]_vars

\* a call has returned from a workflow whose first stage raises and that
\* has a stage after it
C25_Witness ==
    \E c \in CallIds :
        /\ wf.call[c].pc = "returned"
        /\ FirstRaising(StagesOf(c)) = 1
        /\ Len(StagesOf(c)) = MaxStages
        /\ wf.heap[wf.call[c].ref].status = W_FAILED

\* the engine's record of workflow id w (self.workflows[w])
Workflow(w) == wf.heap[wf.workflows[w]]

(* C26: while a workflow's status is running its current_stage never
   decreases, whatever engine operations interleave on its id. *)
C26_StageMonotonic ==
    [][\A w \in WfIds :
          (/\ wf.workflows[w] # 0
           /\ wf.heap[wf.workflows[w]].status = W_RUNNING
           /\ wf'.heap[wf'.workflows[w]].status = W_RUNNING)
          => wf'.heap[wf'.workflows[w]].current_stage
               >= wf.heap[wf.workflows[w]].current_stage]_vars

\* the status changes of the workflow state machine
WorkflowTransitions ==
    {<<W_CREATED, W_RUNNING>>, <<W_RUNNING, W_COMPLETED>>, <<W_RUNNING, W_FAILED>>}

(* C27: a workflow is executed once: the status of an id's workflow changes
   only created -> running, running -> completed, running -> failed, and
   once it is completed or failed no engine operation changes its status or
   its current_stage. *)
C27_ExecutedOnce ==
    [][\A w \in WfIds : wf.workflows[w] # 0 =>
          LET old == wf.heap[wf.workflows[w]]
              new == wf'.heap[wf'.workflows[w]]
          IN /\ old.status # new.status =>
                   <<old.status, new.status>> \in WorkflowTransitions
             /\ old.status \in {W_COMPLETED, W_FAILED} =>
                   /\ new.status = old.status
                   /\ new.current_stage = old.current_stage]_vars

\* the number of save_workflow calls that call c has made
SavesBy(c) == Cardinality({i \in DOMAIN wf.saves : wf.saves[i].by = c})

(* C28: an execute_workflow call on a known id saves the workflow record
   exactly once, after its stage loop: no save before the call returns, one
   when it has returned, and the record it saves has the status completed
   or failed, never running. *)
C28_SavedOnceAtEnd ==
    /\ \A c \in CallIds :
          SavesBy(c) = IF wf.call[c].pc = "returned" THEN 1 ELSE 0
    /\ \A i \in DOMAIN wf.saves :
          wf.saves[i].by \in CallIds => wf.saves[i].status \in {W_COMPLETED, W_FAILED}

(* C29: execute_workflow on an id that was never created fails with the
   not-found error and has no effect: the step creates or changes no
   workflow record, publishes no event and saves nothing, and the call does
   nothing afterwards. *)
C29_UnknownIdNoEffect ==
    /\ [][\A c \in CallIds :
             (/\ wf.call[c].pc = "idle"
              /\ wf'.call[c].pc # "idle"
              /\ wf.workflows[wf'.call[c].id] = 0)
             => /\ wf'.call[c].pc = "not_found"
                /\ wf'.heap = wf.heap
                /\ wf'.workflows = wf.workflows
                /\ wf'.local = wf.local
                /\ wf'.redis = wf.redis
                /\ wf'.events = wf.events
                /\ wf'.saves = wf.saves]_vars
    /\ [](\A c \in CallIds :
            wf.call[c].pc = "not_found" => EventsBy(c) = <<>> /\ SavesBy(c) = 0)

\* execute_workflow was called for an id without a workflow while another
\* id has one
C29_Witness ==
    \E c \in CallIds :
        /\ wf.call[c].pc = "not_found"
        /\ wf.workflows[wf.call[c].id] = 0
        /\ wf.heap # <<>>

\* all events published on the engine's bus, without the caller's mark
EngineEvents == [i \in DOMAIN wf.events |-> <<wf.events[i][1], wf.events[i][2], wf.events[i][3]>>]

\* one create_workflow with an empty stages list, then one execute_workflow
\* of it that has returned; no other call of the engine
EmptyRoundTrip(c) ==
    /\ Len(wf.heap) = 1
    /\ wf.heap[1].definition = <<>>
    /\ wf.call[c].pc = "returned"
    /\ \A d \in CallIds \ {c} : wf.call[d].pc = "idle"

(* C30: create_workflow(id, def) with an empty stages list followed by
   execute_workflow(id) ends with status completed and current_stage 0, and
   the events published are workflow_created, workflow_started,
   workflow_completed, in this order and no other. *)
C30_EmptyRoundTrip ==
    \A c \in CallIds : EmptyRoundTrip(c) =>
        LET w == wf.heap[1].id IN
        /\ wf.workflows[w] = 1
        /\ wf.heap[1].status = W_COMPLETED
        /\ wf.heap[1].current_stage = 0
        /\ wf.heap[1].error = NONE
        /\ EngineEvents = << <<"workflow_created", w, NONE>>,
                             <<"workflow_started", w, NONE>>,
                             <<"workflow_completed", w, NONE>> >>

C30_Witness == \E c \in CallIds : EmptyRoundTrip(c)

-----------------------------------------------------------------------------
(* Properties of the StateManager and of the queries *)

(* C31: for a workflow saved with save_workflow, a get_workflow for which the
   backing store is unavailable (its get raises, or returns None) returns
   the record that was saved last, from the local snapshot. *)
C31_FallbackToLocal ==
    [][(/\ wf'.reply # wf.reply
        /\ wf'.reply.op = "get_workflow"
        /\ wf'.reply.how \in {"absent", "raised"}
        /\ wf.local[wf'.reply.id] # 0)
       => wf'.reply.value = LocalRecord(wf, wf'.reply.id)]_vars

\* the engine's state but for what the redis client holds
BesidesRedis(w) == [w EXCEPT !.redis = [x \in WfIds |-> Absent]]

\* what create_workflow(workflow_id, definition) leaves when the store's set
\* succeeds
CreateStored(workflow_id, definition) ==
    LET heap == Append(wf.heap, NewWorkflow(workflow_id, definition))
        ref == Len(heap)
        w1 == [wf EXCEPT !.heap = heap, !.workflows[workflow_id] = ref]
        w2 == [w1 EXCEPT !.local[workflow_id] = ref,
                         !.redis[workflow_id] = Snapshot(heap[ref]),
                         !.saves = Append(@, [id |-> workflow_id, ref |-> ref,
                                              by |-> "create",
                                              status |-> heap[ref].status,
                                              current_stage |-> heap[ref].current_stage])]
    IN wf_publish(w2, "workflow_created", workflow_id, NONE, "create")

\* what the end of the execute_workflow call c leaves when the store's set
\* succeeds
ReturnStored(c) ==
    LET ref == wf.call[c].ref
        id == wf.call[c].id
    IN [wf EXCEPT !.call[c].pc = "returned",
                  !.local[id] = ref,
                  !.redis[id] = Snapshot(wf.heap[ref]),
                  !.saves = Append(@, [id |-> id, ref |-> ref, by |-> c,
                                       status |-> wf.heap[ref].status,
                                       current_stage |-> wf.heap[ref].current_stage])]

(* C32: a failure of the state store in create_workflow or execute_workflow
   (set raises or returns False) is not fatal: whatever the store does, the
   save leaves local_state holding the workflow's dict, the call goes on to
   its end (create publishes workflow_created, execute returns), and the
   statuses, the events and everything else of the engine are what they are
   when the store succeeds; only what the store holds differs, and it is
   either unchanged or the saved record. *)
C32_StoreFailureNotFatal ==
    [][Len(wf'.saves) = Len(wf.saves) + 1 =>
          LET e == Last(wf'.saves)
          IN /\ wf'.local[e.id] = e.ref
             /\ BesidesRedis(wf') =
                   BesidesRedis(IF e.by = "create"
                                THEN CreateStored(e.id, wf'.heap[e.ref].definition)
                                ELSE ReturnStored(e.by))
             /\ \A x \in WfIds \ {e.id} : wf'.redis[x] = wf.redis[x]
             /\ wf'.redis[e.id] \in {wf.redis[e.id], Snapshot(wf'.heap[e.ref])}]_vars

\* a workflow was created and executed to completion, every set of the store
\* failed, and local_state holds the completed workflow
C32_Witness ==
    \E c \in CallIds :
       /\ wf.call[c].pc = "returned"
       /\ wf.redis[wf.call[c].id] = Absent
       /\ wf.local[wf.call[c].id] = wf.call[c].ref
       /\ wf.heap[wf.call[c].ref].status = W_COMPLETED
       /\ Len(wf.saves) = 2

(* C33: the status queries never raise and change nothing:
   get_task_status(id) with an id of no task and get_workflow_status(id) with
   an id of no workflow return None, no query returns by an exception, and a
   query leaves every task, agent, loop, workflow, subscriber list and event
   as it was. *)
C33_QueriesTotalAndPure ==
    [][(/\ wf'.reply # wf.reply
        /\ wf'.reply.op \in {"get_task_status", "get_workflow_status"})
       => /\ UNCHANGED <<coordVars, cbus, qbus>>
          /\ wf' = [wf EXCEPT !.reply = wf'.reply]
          /\ \A f \in DOMAIN wf'.reply.value : f # "raised"
          /\ (/\ wf'.reply.op = "get_task_status"
              /\ wf'.reply.task \notin Ids(tasks)) => wf'.reply.value = Absent
          /\ (/\ wf'.reply.op = "get_workflow_status"
              /\ wf.workflows[wf'.reply.id] = 0) => wf'.reply.value = Absent]_vars

\* get_task_status was asked for an id of no task while a task and a workflow
\* exist, and returned None
C33_Witness ==
    /\ wf.reply.op = "get_task_status"
    /\ tasks # <<>>
    /\ wf.reply.task \notin Ids(tasks)
    /\ wf.reply.value = Absent
    /\ \E w \in WfIds : wf.workflows[w] # 0

\* the record the state manager holds for a workflow: what the store has
\* and, when the store has nothing, the local snapshot
Persisted(workflow_id) ==
    IF wf.redis[workflow_id] # Absent THEN wf.redis[workflow_id]
    ELSE LocalRecord(wf, workflow_id)

(* C38: during execute_workflow the persisted record follows the stages:
   when the call starts the pass of stage i+1, the state manager holds a
   record with current_stage = i, the stage that has finished; and a call
   that has returned has saved the record with its terminal status. *)
C38_SavedAfterEveryStage ==
    /\ [][\A c \in CallIds :
             (/\ wf.call[c].pc = "loop"
              /\ wf.call[c].idx >= 1
              /\ wf.call[c].idx < Len(StagesOf(c))
              /\ wf'.call[c] # wf.call[c])
             => Persisted(wf.call[c].id).current_stage = wf.call[c].idx - 1]_vars
    /\ [](\A c \in CallIds :
             wf.call[c].pc = "returned" =>
                \E i \in DOMAIN wf.saves :
                   /\ wf.saves[i].by = c
                   /\ wf.saves[i].status \in {W_COMPLETED, W_FAILED})

(* C34: when the agent's execute returns the error payload
   {'error': .., 'status': 'failed'} instead of raising, execute_task ends
   with the task Failed and its error stored, publishes task_failed and no
   task_completed, and no task that depends on it leaves Pending. *)
C34_ErrorPayloadFails ==
    \A i \in DOMAIN tasks :
       tasks[i].result = ErrorPayload =>
          /\ tasks[i].state = FAILED
          /\ tasks[i].error # NONE
          /\ \E k \in DOMAIN events[tasks[i].id] : events[tasks[i].id][k] = TASK_FAILED
          /\ \A k \in DOMAIN events[tasks[i].id] : events[tasks[i].id][k] # TASK_COMPLETED
          /\ \A j \in DOMAIN tasks :
                tasks[i].id \in tasks[j].dependencies => tasks[j].state = PENDING

\* the handlers of list that a publish at position k invokes before it
\* suspends or returns: those from k up to the first coroutine function
DueFrom(list, k) ==
    LET stops == {i \in k..Len(list) : IsCoroutineFunction(list[i])}
        last == IF stops = {} THEN Len(list)
                ELSE CHOOSE i \in stops : \A j \in stops : i <= j
    IN [i \in 1..(last - k + 1) |-> list[k + i - 1]]

\* the invocations that the step adds
NewlySeen == SubSeq(cbus'.seen, Len(cbus.seen) + 1, Len(cbus'.seen))

(* C35: a subscriber of the Coordinator's bus that raises on task_started or
   task_completed changes nothing of the task's outcome: a task whose agent
   returned is Completed with its result and no error and stays so; publish
   goes on past a handler that raises, so that every later subscriber of the
   list is invoked like after a handler that returns; no execute_task
   coroutine ends by an exception and run_workflow does not raise. *)
C35_RaisingSubscriberHarmless ==
    /\ [](/\ \A i \in DOMAIN tasks :
               tasks[i].result # NONE =>
                  tasks[i].state = COMPLETED /\ tasks[i].error = NONE
          /\ \A l \in LoopIds : loops[l].pc # "crashed"
          /\ \A l \in LoopIds, id \in IdSpace : co[l][id] # "raised")
    /\ [][/\ Len(cbus'.calls) = Len(cbus.calls) + 1 =>
               LET call == Last(cbus'.calls)
                   due == DueFrom(cbus.subscribers[call[1]], 1)
               IN NewlySeen = [i \in DOMAIN due |-> <<due[i], call[1], call[2]>>]
           /\ \A l \in LoopIds, id \in IdSpace :
                 (cbus.pub[l][id].idx > 0 /\ cbus'.pub[l][id] # cbus.pub[l][id]) =>
                    LET awaited == cbus.pub[l][id]
                        rest == DueFrom(cbus.subscribers[awaited.type], awaited.idx + 1)
                    IN NewlySeen = [i \in DOMAIN rest |-> <<rest[i], awaited.type, id>>]]_vars

\* run_workflow has returned with the task Completed, and for its
\* task_completed the raising handler was invoked and the handler subscribed
\* after it was invoked next
C35_Witness ==
    /\ loops["L1"].pc = "returned"
    /\ tasks # <<>>
    /\ tasks[1].state = COMPLETED
    /\ cbus.subscribers[TASK_COMPLETED] = <<"on_raise", "on_sync">>
    /\ \E i \in DOMAIN cbus.seen :
          /\ i < Len(cbus.seen)
          /\ cbus.seen[i] = <<"on_raise", TASK_COMPLETED, tasks[1].id>>
          /\ cbus.seen[i + 1] = <<"on_sync", TASK_COMPLETED, tasks[1].id>>

(* C36: the tasks of a batch execute concurrently: no execute_task coroutine
   waits for another one. Whatever the other coroutines of the batch are
   doing, a coroutine that was created can set its task Running, one whose
   task is Running can call its agent, and one that is inside its agent's
   execute can have it return. *)
C36_BatchConcurrent ==
    \A l \in LoopIds, id \in IdSpace :
       /\ co[l][id] = "new" => ENABLED (ExecStart(l, id) /\ Quiet)
       /\ co[l][id] = "started" => ENABLED (ExecInvoke(l, id) /\ Quiet)
       /\ co[l][id] = "agent" =>
             ENABLED (\E r \in env.results : AgentReturn(l, id, r) /\ Quiet)

\* two tasks of one batch are Running at the same time, both coroutines
\* suspended inside their agent's execute
C36_Witness ==
    \E l \in LoopIds, i, j \in DOMAIN tasks :
       /\ i # j
       /\ batchOf[tasks[i].id] = batchOf[tasks[j].id]
       /\ Len(loops[l].batch) >= 2
       /\ tasks[i].state = RUNNING /\ tasks[j].state = RUNNING
       /\ co[l][tasks[i].id] = "agent" /\ co[l][tasks[j].id] = "agent"

\* the count that a state_breakdown gives for a state: a state without a key
\* has no task
CountOf(breakdown, st) == IF st \in DOMAIN breakdown THEN breakdown[st] ELSE 0

RECURSIVE SumOf(_, _)
SumOf(breakdown, keys) ==
    IF keys = {} THEN 0
    ELSE LET k == CHOOSE x \in keys : TRUE
         IN breakdown[k] + SumOf(breakdown, keys \ {k})

(* C39: in every state that Coordinator operations reach, get_status()
   reports total_tasks equal to the number of stored tasks and for each state
   the number of tasks now in that state (no key for a state without tasks),
   so that the counts sum to total_tasks; and the snapshot that run_workflow
   returned has no count for Pending and none for Running. *)
C39_StatusCounts ==
    /\ LET status == get_status(tasks)
       IN /\ status.total_tasks = Cardinality(Ids(tasks))
          /\ \A st \in {PENDING, RUNNING, COMPLETED, FAILED} :
                CountOf(status.state_breakdown, st)
                   = Cardinality({id \in Ids(tasks) : TaskOf(tasks, id).state = st})
          /\ \A st \in DOMAIN status.state_breakdown :
                /\ st \in {PENDING, RUNNING, COMPLETED, FAILED}
                /\ status.state_breakdown[st] >= 1
          /\ SumOf(status.state_breakdown, DOMAIN status.state_breakdown)
                = status.total_tasks
    /\ \A l \in LoopIds :
          loops[l].pc = "returned" =>
             /\ PENDING \notin DOMAIN loops[l].ret.state_breakdown
             /\ RUNNING \notin DOMAIN loops[l].ret.state_breakdown
             /\ SumOf(loops[l].ret.state_breakdown, DOMAIN loops[l].ret.state_breakdown)
                   = loops[l].ret.total_tasks

\* run_workflow has returned a snapshot of three tasks, two Completed and
\* one Failed, and the status now reports the same
C39_Witness ==
    /\ loops["L1"].pc = "returned"
    /\ loops["L1"].ret.total_tasks = 3
    /\ loops["L1"].ret.state_breakdown = (COMPLETED :> 2) @@ (FAILED :> 1)
    /\ get_status(tasks) = loops["L1"].ret

\* the terminal events that call c has published
TerminalEvents(c) ==
    SelectSeq(EventsBy(c),
              LAMBDA e : e[1] \in {"workflow_completed", "workflow_failed"})

\* the terminal event of a status
TerminalEventOf(status) ==
    CASE status = W_COMPLETED -> "workflow_completed"
      [] status = W_FAILED -> "workflow_failed"
      [] OTHER -> NONE

(* C37: every execute_workflow call on a known id terminates, and when it
   returns the workflow's status is completed or failed, not running; the
   call has then published exactly one terminal event, workflow_completed or
   workflow_failed, the one of that status, and none before it left its
   loop. *)
C37_EndsTerminal ==
    /\ [](\A c \in CallIds :
            Len(TerminalEvents(c)) = IF LoopOver(c) THEN 1 ELSE 0)
    /\ [][\A c \in CallIds :
             (wf.call[c].pc = "finishing" /\ wf'.call[c].pc = "returned") =>
                /\ wf'.heap[wf.call[c].ref].status \in {W_COMPLETED, W_FAILED}
                /\ TerminalEvents(c)[1][1]
                      = TerminalEventOf(wf'.heap[wf.call[c].ref].status)]_vars
    /\ \A c \in CallIds : Entered(c) ~> (wf.call[c].pc = "returned")

=============================================================================
